---------------------------- MODULE Spec2Model ----------------------------
(***************************************************************************)
(* google-sheets-mcp: the request/response translation layer of            *)
(* src/src/sheets.py.                                                      *)
(*                                                                         *)
(* A Python str is a sequence of one-character strings (Unicode scalar     *)
(* values), so that quoting, splitting, stripping and JSON serialisation   *)
(* are computed character by character, as the library routines the code   *)
(* calls compute them.  A Python value (None, bool, int, str, list, dict)  *)
(* is a tagged record [t, v]; a dict is its sequence of <<key, value>>     *)
(* items in insertion order.                                               *)
(***************************************************************************)
EXTENDS Integers, Sequences, FiniteSets, Bags, TLC

VARIABLES
    range_a1,   \* _encode_range: the argument
    encoded,    \* _encode_range: the value returned
    encPc,      \* _encode_range: "call" before the return, "return" after, "off" when unused
    pc,         \* per invocation: "idle", "awaiting" (suspended in ctx.dispatch), "replied", "done"
    call,       \* per invocation: the tool invoked and its arguments
    dispatched, \* the bag of ctx.dispatch calls made so far: [inv, request]
    resp,       \* per invocation: the DispatchResponse the dispatcher produced
    result      \* per invocation: the SheetsResult returned (a list of TextContent)

vars == <<range_a1, encoded, encPc, pc, call, dispatched, resp, result>>

----------------------------------------------------------------------------
(* Bounds of the model.                                                    *)

\* Longest argument of _encode_range drawn in SpecEncode.
MaxEncLen == 3
\* Longest range (path segment) drawn by the builders in SpecBuild.
MaxRangeLen == 3
\* Longest comma-separated list (ranges, sheet_titles) drawn in SpecBuild.
MaxListLen == 4
\* Number of concurrent invocations in Spec.
NumInv == 2

----------------------------------------------------------------------------
(* Characters and strings.                                                 *)

SeqRange(s) == {s[i] : i \in DOMAIN s}

Strings(A, n) == UNION {[1..k -> A] : k \in 0..n}

\* The printable ASCII characters, code points 32..126 in order.
\* (SANY reads no grave accent inside a string: code point 96 is named.)
Printable ==
    <<" ","!","\"","#","$","%","&","'","(",")","*","+",",","-",".","/","0","1","2","3","4","5","6","7","8","9",":",";","<","=",">","?","@","A","B","C","D","E","F","G","H","I","J","K","L","M","N","O","P","Q","R","S","T","U","V","W","X","Y","Z","[","\\","]","^","_">>
    \o <<"U+0060">> \o <<"a","b","c","d","e","f","g","h","i","j","k","l","m","n","o","p","q","r","s","t","u","v","w","x","y","z","{","|","}","~">>

\* Python's ord() on the characters the model draws.
Ord(c) ==
    CASE c = "\n" -> 10
      [] c = "\t" -> 9
      [] c = "é" -> 233
      [] c = "€" -> 8364
      [] OTHER -> 31 + (CHOOSE i \in DOMAIN Printable : Printable[i] = c)

\* Python's chr() on the same characters.
Chr(n) ==
    CASE n = 10 -> "\n"
      [] n = 9 -> "\t"
      [] n = 233 -> "é"
      [] n = 8364 -> "€"
      [] OTHER -> Printable[n - 31]

\* str.encode("utf-8") of one code point: its bytes.
UTF8(cp) ==
    IF cp < 128 THEN <<cp>>
    ELSE IF cp < 2048 THEN <<192 + (cp \div 64), 128 + (cp % 64)>>
    ELSE IF cp < 65536
         THEN <<224 + (cp \div 4096), 128 + ((cp \div 64) % 64), 128 + (cp % 64)>>
    ELSE <<240 + (cp \div 262144), 128 + ((cp \div 4096) % 64),
           128 + ((cp \div 64) % 64), 128 + (cp % 64)>>

RECURSIVE encode_utf8(_)
encode_utf8(s) == IF s = <<>> THEN <<>> ELSE UTF8(Ord(Head(s))) \o encode_utf8(Tail(s))

HexDigits == <<"0","1","2","3","4","5","6","7","8","9","A","B","C","D","E","F">>

\* urllib.parse: the characters quote() never encodes.
ALWAYS_SAFE ==
    SeqRange(<<"A","B","C","D","E","F","G","H","I","J","K","L","M","N","O","P","Q","R","S","T","U","V","W","X","Y","Z","a","b","c","d","e","f","g","h","i","j","k","l","m","n","o","p","q","r","s","t","u","v","w","x","y","z","0","1","2","3","4","5","6","7","8","9","_",".","-","~">>)

\* urllib.parse.quote_from_bytes: a byte of the safe set stays, any other
\* becomes %XX in upper-case hexadecimal.
RECURSIVE quote_from_bytes(_, _)
quote_from_bytes(bs, safe) ==
    IF bs = <<>> THEN <<>>
    ELSE LET b == Head(bs)
             keep == b < 128 /\ Chr(b) \in (ALWAYS_SAFE \cup SeqRange(safe))
         IN  (IF keep THEN <<Chr(b)>>
              ELSE <<"%", HexDigits[(b \div 16) + 1], HexDigits[(b % 16) + 1]>>)
             \o quote_from_bytes(Tail(bs), safe)

\* urllib.parse.quote(string, safe).
quote(string, safe) ==
    IF string = <<>> THEN string ELSE quote_from_bytes(encode_utf8(string), safe)

\* A faulty _encode_range: quote() left with its default safe set "/".
EncodeRangeDefaultSafe(r) == quote(r, <<"/">>)

\* _encode_range: URL-encode an A1 range, keeping !:$'(),-._~ literal.
_encode_range(r) == quote(r, <<"!",":","$","'","(",")",",","-",".","_","~">>)

----------------------------------------------------------------------------
(* Python values and the json module.                                      *)

None == [t |-> "None", v |-> 0]
PyBool(b) == [t |-> "bool", v |-> b]
PyInt(n) == [t |-> "int", v |-> n]
PyStr(s) == [t |-> "str", v |-> s]
PyList(xs) == [t |-> "list", v |-> xs]
PyDict(items) == [t |-> "dict", v |-> items]

\* Python truthiness, which `x or y` and `if x` test.
Truthy(x) ==
    CASE x.t = "None" -> FALSE
      [] x.t = "bool" -> x.v
      [] x.t = "int" -> x.v # 0
      [] x.t \in {"str", "list", "dict"} -> x.v # <<>>
      [] OTHER -> TRUE

\* str(b).lower() of a bool.
LowerBool(b) == IF b THEN <<"t","r","u","e">> ELSE <<"f","a","l","s","e">>

RECURSIVE Decimal(_)
Decimal(n) ==
    IF n < 0 THEN <<"-">> \o Decimal(0 - n)
    ELSE IF n < 10 THEN <<HexDigits[n + 1]>>
    ELSE Decimal(n \div 10) \o <<HexDigits[(n % 10) + 1]>>

LowerHexDigits == <<"0","1","2","3","4","5","6","7","8","9","a","b","c","d","e","f">>

\* json.encoder.py_encode_basestring_ascii: one character.
EscapeChar(c) ==
    CASE c = "\"" -> <<"\\","\"">>
      [] c = "\\" -> <<"\\","\\">>
      [] c = "\n" -> <<"\\", "n">>
      [] c = "\t" -> <<"\\", "t">>
      [] OTHER ->
           LET n == Ord(c)
           IN  IF n < 128 THEN <<c>>
               ELSE <<"\\", "u", LowerHexDigits[(n \div 4096) + 1],
                      LowerHexDigits[((n \div 256) % 16) + 1],
                      LowerHexDigits[((n \div 16) % 16) + 1],
                      LowerHexDigits[(n % 16) + 1]>>

RECURSIVE EscapeChars(_)
EscapeChars(s) == IF s = <<>> THEN <<>> ELSE EscapeChar(Head(s)) \o EscapeChars(Tail(s))

encode_basestring_ascii(s) == <<"\"">> \o EscapeChars(s) \o <<"\"">>

RECURSIVE Spaces(_)
Spaces(n) == IF n = 0 THEN <<>> ELSE <<" ">> \o Spaces(n - 1)

\* json.encoder: the line break and indentation before an item at `level`.
NewlineIndent(indent, level) == <<"\n">> \o Spaces(indent * level)

\* json.dumps(obj, indent=indent), as JSONEncoder.iterencode produces it:
\* "," between items, ": " after a key, an empty container on one line.
RECURSIVE Iterencode(_, _, _)
RECURSIVE IterencodeItems(_, _, _, _, _)
Iterencode(o, indent, level) ==
    CASE o.t = "None" -> <<"n","u","l","l">>
      [] o.t = "bool" -> LowerBool(o.v)
      [] o.t = "int" -> Decimal(o.v)
      [] o.t = "str" -> encode_basestring_ascii(o.v)
      [] o.t = "list" ->
           IF o.v = <<>> THEN <<"[","]">>
           ELSE <<"[">> \o IterencodeItems(o.v, 1, FALSE, indent, level + 1)
                \o NewlineIndent(indent, level) \o <<"]">>
      [] o.t = "dict" ->
           IF o.v = <<>> THEN <<"{","}">>
           ELSE <<"{">> \o IterencodeItems(o.v, 1, TRUE, indent, level + 1)
                \o NewlineIndent(indent, level) \o <<"}">>
IterencodeItems(xs, k, keyed, indent, level) ==
    IF k > Len(xs) THEN <<>>
    ELSE (IF k > 1 THEN <<",">> ELSE <<>>)
         \o NewlineIndent(indent, level)
         \o (IF keyed
             THEN encode_basestring_ascii(xs[k][1]) \o <<":"," ">>
                  \o Iterencode(xs[k][2], indent, level)
             ELSE Iterencode(xs[k], indent, level))
         \o IterencodeItems(xs, k + 1, keyed, indent, level)

json_dumps(obj, indent) == Iterencode(obj, indent, 0)

(* json.loads, the reading side of the text the tools return: a recursive  *)
(* descent over the characters.  A parse is [ok, val, pos], pos the index  *)
(* of the first character not consumed.                                    *)
ParseFail == [ok |-> FALSE, val |-> None, pos |-> 1]
ParseOk(v, p) == [ok |-> TRUE, val |-> v, pos |-> p]

JsonWhitespace == {" ", "\n", "\t"}

RECURSIVE SkipWs(_, _)
SkipWs(s, p) == IF p <= Len(s) /\ s[p] \in JsonWhitespace THEN SkipWs(s, p + 1) ELSE p

HasAt(s, p, w) == p + Len(w) - 1 <= Len(s) /\ SubSeq(s, p, p + Len(w) - 1) = w

Digits == SeqRange(<<"0","1","2","3","4","5","6","7","8","9">>)
DigitValue(c) == Ord(c) - 48
HexValue(c) ==
    IF c \in Digits THEN DigitValue(c)
    ELSE IF c \in SeqRange(<<"a","b","c","d","e","f">>) THEN Ord(c) - 87
    ELSE Ord(c) - 55

RECURSIVE ParseDigits(_, _, _)
ParseDigits(s, p, acc) ==
    IF p <= Len(s) /\ s[p] \in Digits
    THEN ParseDigits(s, p + 1, (acc * 10) + DigitValue(s[p]))
    ELSE ParseOk(PyInt(acc), p)

ParseNumber(s, p) ==
    IF p <= Len(s) /\ s[p] = "-"
    THEN IF p + 1 <= Len(s) /\ s[p + 1] \in Digits
         THEN LET r == ParseDigits(s, p + 1, 0) IN ParseOk(PyInt(0 - r.val.v), r.pos)
         ELSE ParseFail
    ELSE ParseDigits(s, p, 0)

\* The characters of a string literal, from the one after its opening quote.
RECURSIVE ParseChars(_, _, _)
ParseChars(s, p, acc) ==
    IF p > Len(s) THEN ParseFail
    ELSE IF s[p] = "\"" THEN ParseOk(PyStr(acc), p + 1)
    ELSE IF s[p] = "\n" THEN ParseFail
    ELSE IF s[p] # "\\" THEN ParseChars(s, p + 1, Append(acc, s[p]))
    ELSE IF p + 1 > Len(s) THEN ParseFail
    ELSE IF s[p + 1] \in {"\"", "\\", "/"} THEN ParseChars(s, p + 2, Append(acc, s[p + 1]))
    ELSE IF s[p + 1] = "n" THEN ParseChars(s, p + 2, Append(acc, "\n"))
    ELSE IF s[p + 1] = "t" THEN ParseChars(s, p + 2, Append(acc, "\t"))
    ELSE IF s[p + 1] = "u" /\ p + 5 <= Len(s)
         THEN ParseChars(s, p + 6,
                  Append(acc, Chr((HexValue(s[p + 2]) * 4096) + (HexValue(s[p + 3]) * 256)
                                  + (HexValue(s[p + 4]) * 16) + HexValue(s[p + 5]))))
    ELSE ParseFail

RECURSIVE ParseValue(_, _)
RECURSIVE ParseElements(_, _, _)
RECURSIVE ParseMembers(_, _, _)
ParseValue(s, p0) ==
    LET p == SkipWs(s, p0)
    IN  IF p > Len(s) THEN ParseFail
        ELSE IF HasAt(s, p, <<"n","u","l","l">>) THEN ParseOk(None, p + 4)
        ELSE IF HasAt(s, p, <<"t","r","u","e">>) THEN ParseOk(PyBool(TRUE), p + 4)
        ELSE IF HasAt(s, p, <<"f","a","l","s","e">>) THEN ParseOk(PyBool(FALSE), p + 5)
        ELSE IF s[p] = "\"" THEN ParseChars(s, p + 1, <<>>)
        ELSE IF s[p] \in Digits \cup {"-"} THEN ParseNumber(s, p)
        ELSE IF s[p] = "["
             THEN LET q == SkipWs(s, p + 1)
                  IN  IF q <= Len(s) /\ s[q] = "]" THEN ParseOk(PyList(<<>>), q + 1)
                      ELSE ParseElements(s, q, <<>>)
        ELSE IF s[p] = "{"
             THEN LET q == SkipWs(s, p + 1)
                  IN  IF q <= Len(s) /\ s[q] = "}" THEN ParseOk(PyDict(<<>>), q + 1)
                      ELSE ParseMembers(s, q, <<>>)
        ELSE ParseFail
ParseElements(s, p, acc) ==
    LET r == ParseValue(s, p)
        q == SkipWs(s, r.pos)
    IN  IF ~r.ok \/ q > Len(s) THEN ParseFail
        ELSE IF s[q] = "," THEN ParseElements(s, q + 1, Append(acc, r.val))
        ELSE IF s[q] = "]" THEN ParseOk(PyList(Append(acc, r.val)), q + 1)
        ELSE ParseFail
ParseMembers(s, p0, acc) ==
    LET p == SkipWs(s, p0)
        k == IF p <= Len(s) /\ s[p] = "\"" THEN ParseChars(s, p + 1, <<>>) ELSE ParseFail
        c == SkipWs(s, k.pos)
        r == IF k.ok /\ c <= Len(s) /\ s[c] = ":" THEN ParseValue(s, c + 1) ELSE ParseFail
        q == SkipWs(s, r.pos)
    IN  IF ~r.ok \/ q > Len(s) THEN ParseFail
        ELSE IF s[q] = "," THEN ParseMembers(s, q + 1, Append(acc, <<k.val.v, r.val>>))
        ELSE IF s[q] = "}" THEN ParseOk(PyDict(Append(acc, <<k.val.v, r.val>>)), q + 1)
        ELSE ParseFail

\* json.loads(text): the value, or JsonError when the text is not one JSON value.
JsonError == [t |-> "JSONDecodeError", v |-> 0]
json_loads(text) ==
    LET r == ParseValue(text, 1)
    IN  IF r.ok /\ SkipWs(text, r.pos) = Len(text) + 1 THEN r.val ELSE JsonError

----------------------------------------------------------------------------
(* str methods the builders use.                                           *)

\* str.split(sep) for a one-character separator: always at least one segment.
RECURSIVE split(_, _)
split(s, sep) ==
    IF sep \notin SeqRange(s) THEN <<s>>
    ELSE LET i == CHOOSE k \in DOMAIN s : s[k] = sep /\ \A j \in 1..(k - 1) : s[j] # sep
         IN  <<SubSeq(s, 1, i - 1)>> \o split(SubSeq(s, i + 1, Len(s)), sep)

\* The characters str.strip() removes (those the model draws).
Whitespace == {" ", "\t", "\n"}

RECURSIVE lstrip(_)
lstrip(s) == IF s # <<>> /\ Head(s) \in Whitespace THEN lstrip(Tail(s)) ELSE s

RECURSIVE rstrip(_)
rstrip(s) ==
    IF s # <<>> /\ s[Len(s)] \in Whitespace THEN rstrip(SubSeq(s, 1, Len(s) - 1)) ELSE s

strip(s) == rstrip(lstrip(s))

\* sep.join(parts).
RECURSIVE join(_, _)
join(sep, parts) ==
    IF parts = <<>> THEN <<>>
    ELSE IF Len(parts) = 1 THEN parts[1]
    ELSE parts[1] \o sep \o join(sep, Tail(parts))

\* [f"ranges={r.strip()}" for r in ranges.split(",")]
RangesParams(ranges) ==
    LET segs == split(ranges, ",")
    IN  [k \in DOMAIN segs |-> <<"r","a","n","g","e","s","=">> \o strip(segs[k])]

----------------------------------------------------------------------------
(* The tools: each builds the one HttpRequest it passes to _req.           *)

HttpRequest(method, path, body) == [method |-> method, path |-> path, body |-> body]

sheets_get_spreadsheet(spreadsheet_id, include_grid_data, ranges, fields) ==
    LET params == <<<<"i","n","c","l","u","d","e","G","r","i","d","D","a","t","a","=">> \o LowerBool(include_grid_data)>>
                  \o (IF ranges # <<>> THEN RangesParams(ranges) ELSE <<>>)
                  \o (IF fields # <<>> THEN <<<<"f","i","e","l","d","s","=">> \o fields>> ELSE <<>>)
        query_string == join(<<"&">>, params)
    IN  HttpRequest("GET", <<"/","v","4","/","s","p","r","e","a","d","s","h","e","e","t","s","/">> \o spreadsheet_id \o <<"?">> \o query_string, None)

sheets_list_sheets(spreadsheet_id) ==
    LET fields ==
          <<"s","p","r","e","a","d","s","h","e","e","t","I","d",",","p","r","o","p","e","r","t","i","e","s","(","t","i","t","l","e",")",",","s","h","e","e","t","s","(","p","r","o","p","e","r","t","i","e","s","(","s","h","e","e","t","I","d",",","t","i","t","l","e",",","i","n","d","e","x",",","g","r","i","d","P","r","o","p","e","r","t","i","e","s",")",")">>
    IN  HttpRequest("GET", <<"/","v","4","/","s","p","r","e","a","d","s","h","e","e","t","s","/">> \o spreadsheet_id \o <<"?","f","i","e","l","d","s","=">> \o fields, None)

sheets_get_values(spreadsheet_id, range, major_dimension, value_render_option, date_time_render_option) ==
    LET encoded_range == _encode_range(range)
        params == <<<<"m","a","j","o","r","D","i","m","e","n","s","i","o","n","=">> \o major_dimension,
                    <<"v","a","l","u","e","R","e","n","d","e","r","O","p","t","i","o","n","=">> \o value_render_option,
                    <<"d","a","t","e","T","i","m","e","R","e","n","d","e","r","O","p","t","i","o","n","=">> \o date_time_render_option>>
        query_string == join(<<"&">>, params)
    IN  HttpRequest("GET",
                    <<"/","v","4","/","s","p","r","e","a","d","s","h","e","e","t","s","/">> \o spreadsheet_id \o <<"/","v","a","l","u","e","s","/">> \o encoded_range
                        \o <<"?">> \o query_string,
                    None)

sheets_batch_get_values(spreadsheet_id, ranges, major_dimension, value_render_option, date_time_render_option) ==
    LET params == <<<<"m","a","j","o","r","D","i","m","e","n","s","i","o","n","=">> \o major_dimension,
                    <<"v","a","l","u","e","R","e","n","d","e","r","O","p","t","i","o","n","=">> \o value_render_option,
                    <<"d","a","t","e","T","i","m","e","R","e","n","d","e","r","O","p","t","i","o","n","=">> \o date_time_render_option>>
                  \o RangesParams(ranges)
        query_string == join(<<"&">>, params)
    IN  HttpRequest("GET",
                    <<"/","v","4","/","s","p","r","e","a","d","s","h","e","e","t","s","/">> \o spreadsheet_id \o <<"/","v","a","l","u","e","s",":","b","a","t","c","h","G","e","t","?">> \o query_string,
                    None)

\* A faulty sheets_update_values: the range interpolated without _encode_range.
UpdateValuesRawRange(spreadsheet_id, range, values, value_input_option, include_values_in_response) ==
    HttpRequest("PUT",
                <<"/","v","4","/","s","p","r","e","a","d","s","h","e","e","t","s","/">> \o spreadsheet_id \o <<"/","v","a","l","u","e","s","/">> \o range
                    \o <<"?","v","a","l","u","e","I","n","p","u","t","O","p","t","i","o","n","=">> \o value_input_option
                    \o <<"&","i","n","c","l","u","d","e","V","a","l","u","e","s","I","n","R","e","s","p","o","n","s","e","=">> \o LowerBool(include_values_in_response),
                PyDict(<< <<<<"v","a","l","u","e","s">>, values>> >>))

sheets_update_values(spreadsheet_id, range, values, value_input_option, include_values_in_response) ==
    LET encoded_range == _encode_range(range)
        params == <<<<"v","a","l","u","e","I","n","p","u","t","O","p","t","i","o","n","=">> \o value_input_option,
                    <<"i","n","c","l","u","d","e","V","a","l","u","e","s","I","n","R","e","s","p","o","n","s","e","=">> \o LowerBool(include_values_in_response)>>
        query_string == join(<<"&">>, params)
        body == PyDict(<< <<<<"v","a","l","u","e","s">>, values>> >>)
    IN  HttpRequest("PUT",
                    <<"/","v","4","/","s","p","r","e","a","d","s","h","e","e","t","s","/">> \o spreadsheet_id \o <<"/","v","a","l","u","e","s","/">> \o encoded_range
                        \o <<"?">> \o query_string,
                    body)

\* A faulty sheets_batch_update_values: each item's range percent-encoded,
\* as the single-range tools do.
RECURSIVE EncodeItemRanges(_)
EncodeItemRanges(items) ==
    IF items = <<>> THEN <<>>
    ELSE LET d == Head(items)
             enc == [k \in DOMAIN d.v |->
                        IF d.v[k][1] = <<"r","a","n","g","e">>
                        THEN <<d.v[k][1], PyStr(_encode_range(d.v[k][2].v))>>
                        ELSE d.v[k]]
         IN  <<PyDict(enc)>> \o EncodeItemRanges(Tail(items))
BatchUpdateValuesEncoded(spreadsheet_id, data, value_input_option, include_values_in_response) ==
    HttpRequest("POST",
                <<"/","v","4","/","s","p","r","e","a","d","s","h","e","e","t","s","/">> \o spreadsheet_id \o <<"/","v","a","l","u","e","s",":","b","a","t","c","h","U","p","d","a","t","e">>,
                PyDict(<< <<<<"v","a","l","u","e","I","n","p","u","t","O","p","t","i","o","n">>, PyStr(value_input_option)>>,
                          <<<<"i","n","c","l","u","d","e","V","a","l","u","e","s","I","n","R","e","s","p","o","n","s","e">>, PyBool(include_values_in_response)>>,
                          <<<<"d","a","t","a">>, PyList(EncodeItemRanges(data.v))>> >>))

sheets_batch_update_values(spreadsheet_id, data, value_input_option, include_values_in_response) ==
    LET body == PyDict(<< <<<<"v","a","l","u","e","I","n","p","u","t","O","p","t","i","o","n">>, PyStr(value_input_option)>>,
                          <<<<"i","n","c","l","u","d","e","V","a","l","u","e","s","I","n","R","e","s","p","o","n","s","e">>, PyBool(include_values_in_response)>>,
                          <<<<"d","a","t","a">>, data>> >>)
    IN  HttpRequest("POST", <<"/","v","4","/","s","p","r","e","a","d","s","h","e","e","t","s","/">> \o spreadsheet_id \o <<"/","v","a","l","u","e","s",":","b","a","t","c","h","U","p","d","a","t","e">>, body)

sheets_append_values(spreadsheet_id, range, values, value_input_option, insert_data_option, include_values_in_response) ==
    LET encoded_range == _encode_range(range)
        params == <<<<"v","a","l","u","e","I","n","p","u","t","O","p","t","i","o","n","=">> \o value_input_option,
                    <<"i","n","s","e","r","t","D","a","t","a","O","p","t","i","o","n","=">> \o insert_data_option,
                    <<"i","n","c","l","u","d","e","V","a","l","u","e","s","I","n","R","e","s","p","o","n","s","e","=">> \o LowerBool(include_values_in_response)>>
        query_string == join(<<"&">>, params)
        body == PyDict(<< <<<<"v","a","l","u","e","s">>, values>> >>)
    IN  HttpRequest("POST",
                    <<"/","v","4","/","s","p","r","e","a","d","s","h","e","e","t","s","/">> \o spreadsheet_id \o <<"/","v","a","l","u","e","s","/">> \o encoded_range
                        \o <<":","a","p","p","e","n","d","?">> \o query_string,
                    body)

sheets_clear_values(spreadsheet_id, range) ==
    LET encoded_range == _encode_range(range)
    IN  HttpRequest("POST",
                    <<"/","v","4","/","s","p","r","e","a","d","s","h","e","e","t","s","/">> \o spreadsheet_id \o <<"/","v","a","l","u","e","s","/">> \o encoded_range \o <<":","c","l","e","a","r">>,
                    PyDict(<<>>))

sheets_batch_update(spreadsheet_id, requests, include_spreadsheet_in_response) ==
    LET body == PyDict(<< <<<<"r","e","q","u","e","s","t","s">>, requests>>,
                          <<<<"i","n","c","l","u","d","e","S","p","r","e","a","d","s","h","e","e","t","I","n","R","e","s","p","o","n","s","e">>,
                            PyBool(include_spreadsheet_in_response)>> >>)
    IN  HttpRequest("POST", <<"/","v","4","/","s","p","r","e","a","d","s","h","e","e","t","s","/">> \o spreadsheet_id \o <<":","b","a","t","c","h","U","p","d","a","t","e">>, body)

\* {"properties": {"title": t}}
SheetProperties(t) == PyDict(<< <<<<"p","r","o","p","e","r","t","i","e","s">>, PyDict(<< <<<<"t","i","t","l","e">>, PyStr(t)>> >>)>> >>)

\* A faulty sheets_create: the titles split but not stripped.
CreateUnstripped(title, sheet_titles) ==
    LET segs == split(sheet_titles, ",")
        sheetsList == PyList([k \in DOMAIN segs |-> SheetProperties(segs[k])])
    IN  HttpRequest("POST", <<"/","v","4","/","s","p","r","e","a","d","s","h","e","e","t","s">>,
                    PyDict(<< <<<<"p","r","o","p","e","r","t","i","e","s">>, PyDict(<< <<<<"t","i","t","l","e">>, PyStr(title)>> >>)>> >>
                           \o (IF sheet_titles # <<>> THEN << <<<<"s","h","e","e","t","s">>, sheetsList>> >> ELSE <<>>)))

sheets_create(title, sheet_titles) ==
    LET segs == split(sheet_titles, ",")
        sheetsList == PyList([k \in DOMAIN segs |-> SheetProperties(strip(segs[k]))])
        body == PyDict(<< <<<<"p","r","o","p","e","r","t","i","e","s">>, PyDict(<< <<<<"t","i","t","l","e">>, PyStr(title)>> >>)>> >>
                       \o (IF sheet_titles # <<>> THEN << <<<<"s","h","e","e","t","s">>, sheetsList>> >> ELSE <<>>))
    IN  HttpRequest("POST", <<"/","v","4","/","s","p","r","e","a","d","s","h","e","e","t","s">>, body)

----------------------------------------------------------------------------
(* _req and the dispatcher.                                                *)

\* What ctx.dispatch returns: success with a response carrying a body (None
\* when the response has none), or failure with an error object carrying a
\* message, or failure with no error object.
HttpResponse(body) == [t |-> "HttpResponse", v |-> body]
DispatchError(message) == [t |-> "DispatchError", v |-> message]
DispatchResponse(success, response, error) ==
    [success |-> success, response |-> response, error |-> error]
Success(body) == DispatchResponse(TRUE, HttpResponse(body), None)
Failure(error) == DispatchResponse(FALSE, None, error)

TextContent(text) == [type |-> "text", text |-> text]

\* A faulty ctx.dispatch call site: the request is dispatched a second time.
DispatchTwice(bag, i, req) == bag (+) SetToBag({[inv |-> i, request |-> req]})
                                  (+) SetToBag({[inv |-> i, request |-> req]})

\* _req, line 42: the one call of ctx.dispatch, recorded in the bag of calls.
ctx_dispatch(bag, i, req) == bag (+) SetToBag({[inv |-> i, request |-> req]})

\* A faulty await: the coroutine resumes with whichever reply is pending.
AwaitedAny(i) == resp[CHOOSE j \in DOMAIN pc : pc[j] = "replied"]

\* _req, line 42: `resp = await ctx.dispatch(...)` resumes with the reply to
\* this invocation's own call.
Awaited(i) == resp[i]

\* _req, lines 43-47: the SheetsResult made of a DispatchResponse.
ReqResult(r) ==
    IF r.success
    THEN LET data == IF Truthy(r.response.v) THEN r.response.v ELSE PyDict(<<>>)
         IN  <<TextContent(json_dumps(data, 2))>>
    ELSE LET error == IF Truthy(r.error) THEN r.error.v ELSE PyStr(<<"R","e","q","u","e","s","t"," ","f","a","i","l","e","d">>)
         IN  <<TextContent(json_dumps(PyDict(<< <<<<"e","r","r","o","r">>, error>> >>), 2))>>

\* The invocation `i` calls a tool with arguments `c`: the tool builds `req`,
\* _req hands it to ctx.dispatch and suspends.
Invoke(i, c, req) ==
    /\ pc[i] = "idle"
    /\ pc' = [pc EXCEPT ![i] = "awaiting"]
    /\ call' = [call EXCEPT ![i] = c]
    /\ dispatched' = ctx_dispatch(dispatched, i, req)
    /\ UNCHANGED <<range_a1, encoded, encPc, resp, result>>

Call(tool, args) == [tool |-> tool, args |-> args]
NoCall == Call("", <<>>)

\* The request a call builds: the tool applied to its arguments.
BuiltRequest(c) ==
    LET a == c.args
    IN  CASE c.tool = "sheets_get_spreadsheet" ->
               sheets_get_spreadsheet(a.spreadsheet_id, a.include_grid_data, a.ranges, a.fields)
          [] c.tool = "sheets_list_sheets" -> sheets_list_sheets(a.spreadsheet_id)
          [] c.tool = "sheets_create" -> sheets_create(a.title, a.sheet_titles)
          [] c.tool = "sheets_batch_update" ->
               sheets_batch_update(a.spreadsheet_id, a.requests, a.include_spreadsheet_in_response)
          [] c.tool = "sheets_get_values" ->
               sheets_get_values(a.spreadsheet_id, a.range, a.major_dimension,
                                 a.value_render_option, a.date_time_render_option)
          [] c.tool = "sheets_batch_get_values" ->
               sheets_batch_get_values(a.spreadsheet_id, a.ranges, a.major_dimension,
                                       a.value_render_option, a.date_time_render_option)
          [] c.tool = "sheets_update_values" ->
               sheets_update_values(a.spreadsheet_id, a.range, a.values, a.value_input_option,
                                    a.include_values_in_response)
          [] c.tool = "sheets_batch_update_values" ->
               sheets_batch_update_values(a.spreadsheet_id, a.data, a.value_input_option,
                                          a.include_values_in_response)
          [] c.tool = "sheets_append_values" ->
               sheets_append_values(a.spreadsheet_id, a.range, a.values, a.value_input_option,
                                    a.insert_data_option, a.include_values_in_response)
          [] c.tool = "sheets_clear_values" -> sheets_clear_values(a.spreadsheet_id, a.range)

----------------------------------------------------------------------------
(* The actions: one per tool of sheets_tools, the dispatcher's reply, and  *)
(* the return of _req.  D is the domain the arguments are drawn from.      *)

Call_sheets_get_spreadsheet(i, D) ==
    /\ pc[i] = "idle"
    /\ \E id \in D.ids, g \in D.bools, rs \in D.lists, f \in D.fields :
           LET c == Call("sheets_get_spreadsheet",
                         [spreadsheet_id |-> id, include_grid_data |-> g, ranges |-> rs, fields |-> f])
           IN  Invoke(i, c, BuiltRequest(c))

Call_sheets_list_sheets(i, D) ==
    /\ pc[i] = "idle"
    /\ \E id \in D.ids :
           LET c == Call("sheets_list_sheets", [spreadsheet_id |-> id])
           IN  Invoke(i, c, BuiltRequest(c))

Call_sheets_create(i, D) ==
    /\ pc[i] = "idle"
    /\ \E t \in D.titles, st \in D.lists :
           LET c == Call("sheets_create", [title |-> t, sheet_titles |-> st])
           IN  Invoke(i, c, BuiltRequest(c))

Call_sheets_batch_update(i, D) ==
    /\ pc[i] = "idle"
    /\ \E id \in D.ids, rq \in D.requests, s \in D.bools :
           LET c == Call("sheets_batch_update",
                         [spreadsheet_id |-> id, requests |-> rq,
                          include_spreadsheet_in_response |-> s])
           IN  Invoke(i, c, BuiltRequest(c))

Call_sheets_get_values(i, D) ==
    /\ pc[i] = "idle"
    /\ \E id \in D.ids, r \in D.ranges, md \in D.major_dimensions,
          vr \in D.value_render_options, dt \in D.date_time_render_options :
           LET c == Call("sheets_get_values",
                         [spreadsheet_id |-> id, range |-> r, major_dimension |-> md,
                          value_render_option |-> vr, date_time_render_option |-> dt])
           IN  Invoke(i, c, BuiltRequest(c))

Call_sheets_batch_get_values(i, D) ==
    /\ pc[i] = "idle"
    /\ \E id \in D.ids, rs \in D.lists, md \in D.major_dimensions,
          vr \in D.value_render_options, dt \in D.date_time_render_options :
           LET c == Call("sheets_batch_get_values",
                         [spreadsheet_id |-> id, ranges |-> rs, major_dimension |-> md,
                          value_render_option |-> vr, date_time_render_option |-> dt])
           IN  Invoke(i, c, BuiltRequest(c))

Call_sheets_update_values(i, D) ==
    /\ pc[i] = "idle"
    /\ \E id \in D.ids, r \in D.ranges, v \in D.grids, vi \in D.value_input_options, iv \in D.bools :
           LET c == Call("sheets_update_values",
                         [spreadsheet_id |-> id, range |-> r, values |-> v,
                          value_input_option |-> vi, include_values_in_response |-> iv])
           IN  Invoke(i, c, BuiltRequest(c))

Call_sheets_batch_update_values(i, D) ==
    /\ pc[i] = "idle"
    /\ \E id \in D.ids, d \in D.datas, vi \in D.value_input_options, iv \in D.bools :
           LET c == Call("sheets_batch_update_values",
                         [spreadsheet_id |-> id, data |-> d, value_input_option |-> vi,
                          include_values_in_response |-> iv])
           IN  Invoke(i, c, BuiltRequest(c))

Call_sheets_append_values(i, D) ==
    /\ pc[i] = "idle"
    /\ \E id \in D.ids, r \in D.ranges, v \in D.grids, vi \in D.value_input_options,
          ins \in D.insert_data_options, iv \in D.bools :
           LET c == Call("sheets_append_values",
                         [spreadsheet_id |-> id, range |-> r, values |-> v,
                          value_input_option |-> vi, insert_data_option |-> ins,
                          include_values_in_response |-> iv])
           IN  Invoke(i, c, BuiltRequest(c))

Call_sheets_clear_values(i, D) ==
    /\ pc[i] = "idle"
    /\ \E id \in D.ids, r \in D.ranges :
           LET c == Call("sheets_clear_values", [spreadsheet_id |-> id, range |-> r])
           IN  Invoke(i, c, BuiltRequest(c))

\* The external dispatcher completes the pending call of invocation i.
DispatcherReply(i, D) ==
    /\ pc[i] = "awaiting"
    /\ \E o \in D.outcomes : resp' = [resp EXCEPT ![i] = o]
       /\ pc' = [pc EXCEPT ![i] = "replied"]
       /\ UNCHANGED <<range_a1, encoded, encPc, call, dispatched, result>>

\* _req resumes, normalises the reply and returns; the tool returns with it.
ReqReturn(i) ==
    /\ pc[i] = "replied"
    /\ result' = [result EXCEPT ![i] = ReqResult(Awaited(i))]
    /\ pc' = [pc EXCEPT ![i] = "done"]
    /\ UNCHANGED <<range_a1, encoded, encPc, call, dispatched, resp>>

\* _encode_range called on its own.
EncodeRange ==
    /\ encPc = "call"
    /\ encoded' = _encode_range(range_a1)
    /\ encPc' = "return"
    /\ UNCHANGED <<range_a1, pc, call, dispatched, resp, result>>

----------------------------------------------------------------------------
(* The argument domains of the three specifications of the tools.          *)

Item(r, grid) == PyDict(<< <<<<"r","a","n","g","e">>, PyStr(r)>>, <<<<"v","a","l","u","e","s">>, grid>> >>)
Grid == PyList(<<PyList(<<PyStr(<<"x">>), PyInt(1)>>)>>)
AddSheet == PyDict(<< <<<<"a","d","d","S","h","e","e","t">>, PyDict(<< <<<<"p","r","o","p","e","r","t","i","e","s">>, PyDict(<< <<<<"t","i","t","l","e">>, PyStr(<<"Q","1">>)>> >>)>> >>)>> >>)

EncAlphabet == SeqRange(<<"A","7","!",":","$","'","(",")",",","-",".","_","~"," ","#","%","/","é","€">>)
RangeAlphabet == SeqRange(<<"A","1","!",":"," ","#","%","é">>)
ListAlphabet == SeqRange(<<"A","B",","," ","&">>)

\* SpecBuild: the string arguments drawn exhaustively up to a length, the
\* dispatcher reduced to one success and one failure.
BuildDomain ==
    [ids |-> {<<"a","b","c","1","2","3">>, <<"a"," ","b">>},
     bools |-> BOOLEAN,
     ranges |-> Strings(RangeAlphabet, MaxRangeLen) \cup {<<"S","h","e","e","t"," ","1","!","A","1",":","B","2">>},
     lists |-> Strings(ListAlphabet, MaxListLen)
                \cup {<<"S","h","e","e","t","1","!","A","1",",","S","h","e","e","t","1","!","B","2">>, <<"J","a","n",","," ","F","e","b">>, <<"A","1","&","m","a","j","o","r","D","i","m","e","n","s","i","o","n","=","C","O","L","U","M","N","S">>},
     fields |-> {<<>>, <<"s","h","e","e","t","s",".","p","r","o","p","e","r","t","i","e","s">>},
     titles |-> {<<"B","u","d","g","e","t">>, <<" ","Q","&","A"," ">>},
     requests |-> {PyList(<<>>), PyList(<<AddSheet>>)},
     major_dimensions |-> {<<"R","O","W","S">>},
     value_render_options |-> {<<"F","O","R","M","A","T","T","E","D","_","V","A","L","U","E">>},
     date_time_render_options |-> {<<"S","E","R","I","A","L","_","N","U","M","B","E","R">>},
     grids |-> {Grid},
     value_input_options |-> {<<"U","S","E","R","_","E","N","T","E","R","E","D">>, <<"R","A","W">>},
     insert_data_options |-> {<<"I","N","S","E","R","T","_","R","O","W","S">>},
     datas |-> {PyList(<<>>),
                PyList(<<Item(<<"S","h","e","e","t"," ","1","!","A","1">>, Grid)>>),
                PyList(<<Item(<<"A","1",":","B","2">>, Grid), Item(<<" ","'","Q","#","1","'","!","A","%"," ">>, PyList(<<>>))>>)},
     outcomes |-> {Success(PyDict(<<>>)), Failure(None)}]

\* SpecReq: a few calls, the dispatcher's outcomes drawn widely.
ReqDomain ==
    [ids |-> {<<"a","b","c","1","2","3">>},
     bools |-> {FALSE},
     ranges |-> {<<"S","h","e","e","t","1","!","A","1",":","B","1","0">>},
     lists |-> {<<>>, <<"S","h","e","e","t","1","!","A","1",",","S","h","e","e","t","1","!","B","2">>},
     fields |-> {<<>>},
     titles |-> {<<"B","u","d","g","e","t">>},
     requests |-> {PyList(<<AddSheet>>)},
     major_dimensions |-> {<<"R","O","W","S">>},
     value_render_options |-> {<<"F","O","R","M","A","T","T","E","D","_","V","A","L","U","E">>},
     date_time_render_options |-> {<<"S","E","R","I","A","L","_","N","U","M","B","E","R">>},
     grids |-> {Grid},
     value_input_options |-> {<<"U","S","E","R","_","E","N","T","E","R","E","D">>},
     insert_data_options |-> {<<"I","N","S","E","R","T","_","R","O","W","S">>},
     datas |-> {PyList(<<Item(<<"S","h","e","e","t"," ","1","!","A","1">>, Grid)>>)},
     outcomes |->
        {Success(b) : b \in
            {None, PyDict(<<>>), PyList(<<>>), PyStr(<<>>), PyStr(<<"O","K">>),
             PyList(<<PyInt(1), PyBool(FALSE), None>>),
             PyDict(<< <<<<"v","a","l","u","e","s">>, PyList(<<PyList(<<PyStr(<<"x">>)>>)>>)>> >>),
             PyDict(<< <<<<"s","p","r","e","a","d","s","h","e","e","t","I","d">>, PyStr(<<"a","b","c","1","2","3">>)>>, <<<<"u","p","d","a","t","e","d","C","e","l","l","s">>, PyInt(-12)>>,
                       <<<<"t","i","t","l","e">>, PyStr(<<"a","\"","b","\\","\\","c","\n","d"," ","é">>)>> >>),
             PyDict(<< <<<<"e","r","r","o","r">>, PyStr(<<"q","u","o","t","a">>)>> >>),
             PyDict(<< <<<<"e","r","r","o","r">>, PyDict(<< <<<<"c","o","d","e">>, PyInt(404)>> >>)>> >>)}}
        \cup {Failure(e) : e \in
            {None, DispatchError(None), DispatchError(PyStr(<<>>)),
             DispatchError(PyStr(<<"t","i","m","e","o","u","t">>)), DispatchError(PyStr(<<"b","a","d"," ","\"","r","a","n","g","e","\"">>))}}]

\* Spec: concurrent invocations, each argument and outcome set kept small.
ConcDomain ==
    [ids |-> {<<"a","b","c","1","2","3">>},
     bools |-> {FALSE},
     ranges |-> {<<"S","h","e","e","t"," ","1","!","A","1",":","B","2">>},
     lists |-> {<<"A","1",","," ","B","2">>},
     fields |-> {<<>>},
     titles |-> {<<"B","u","d","g","e","t">>},
     requests |-> {PyList(<<AddSheet>>)},
     major_dimensions |-> {<<"R","O","W","S">>},
     value_render_options |-> {<<"F","O","R","M","A","T","T","E","D","_","V","A","L","U","E">>},
     date_time_render_options |-> {<<"S","E","R","I","A","L","_","N","U","M","B","E","R">>},
     grids |-> {Grid},
     value_input_options |-> {<<"U","S","E","R","_","E","N","T","E","R","E","D">>},
     insert_data_options |-> {<<"I","N","S","E","R","T","_","R","O","W","S">>},
     datas |-> {PyList(<<Item(<<"S","h","e","e","t"," ","1","!","A","1">>, Grid)>>)},
     outcomes |-> {Success(PyDict(<< <<<<"v","a","l","u","e","s">>, PyList(<<PyList(<<PyStr(<<"x">>)>>)>>)>> >>)),
                   Failure(DispatchError(PyStr(<<"t","i","m","e","o","u","t">>)))}]

----------------------------------------------------------------------------
(* Specifications.                                                         *)

\* The invocations of Spec, and the one invocation of SpecBuild and SpecReq.
Invocations == 1..NumInv
Single == {1}

\* The state after the module is imported, with invocations I not yet started.
InitTools(I) ==
    /\ range_a1 = <<>>
    /\ encoded = <<>>
    /\ encPc = "off"
    /\ pc = [i \in I |-> "idle"]
    /\ call = [i \in I |-> NoCall]
    /\ dispatched = EmptyBag
    /\ resp = [i \in I |-> None]
    /\ result = [i \in I |-> <<>>]

\* _encode_range alone, on every string over EncAlphabet up to MaxEncLen.
InitEncode ==
    /\ range_a1 \in Strings(EncAlphabet, MaxEncLen)
    /\ encoded = <<>>
    /\ encPc = "call"
    /\ pc = <<>>
    /\ call = <<>>
    /\ dispatched = EmptyBag
    /\ resp = <<>>
    /\ result = <<>>
NextEncode == EncodeRange
SpecEncode == InitEncode /\ [][NextEncode]_vars

\* One invocation, arguments drawn from BuildDomain.
InitBuild == InitTools(Single)
NextBuild ==
    \E i \in Single :
        \/ Call_sheets_get_spreadsheet(i, BuildDomain)
        \/ Call_sheets_list_sheets(i, BuildDomain)
        \/ Call_sheets_create(i, BuildDomain)
        \/ Call_sheets_batch_update(i, BuildDomain)
        \/ Call_sheets_get_values(i, BuildDomain)
        \/ Call_sheets_batch_get_values(i, BuildDomain)
        \/ Call_sheets_update_values(i, BuildDomain)
        \/ Call_sheets_batch_update_values(i, BuildDomain)
        \/ Call_sheets_append_values(i, BuildDomain)
        \/ Call_sheets_clear_values(i, BuildDomain)
        \/ DispatcherReply(i, BuildDomain)
        \/ ReqReturn(i)
SpecBuild == InitBuild /\ [][NextBuild]_vars

\* One invocation, dispatcher outcomes drawn from ReqDomain.
InitReq == InitTools(Single)
NextReq ==
    \E i \in Single :
        \/ Call_sheets_get_spreadsheet(i, ReqDomain)
        \/ Call_sheets_list_sheets(i, ReqDomain)
        \/ Call_sheets_create(i, ReqDomain)
        \/ Call_sheets_batch_update(i, ReqDomain)
        \/ Call_sheets_get_values(i, ReqDomain)
        \/ Call_sheets_batch_get_values(i, ReqDomain)
        \/ Call_sheets_update_values(i, ReqDomain)
        \/ Call_sheets_batch_update_values(i, ReqDomain)
        \/ Call_sheets_append_values(i, ReqDomain)
        \/ Call_sheets_clear_values(i, ReqDomain)
        \/ DispatcherReply(i, ReqDomain)
        \/ ReqReturn(i)
SpecReq == InitReq /\ [][NextReq]_vars

\* NumInv invocations running concurrently.
Init == InitTools(Invocations)
Next ==
    \E i \in Invocations :
        \/ Call_sheets_get_spreadsheet(i, ConcDomain)
        \/ Call_sheets_list_sheets(i, ConcDomain)
        \/ Call_sheets_create(i, ConcDomain)
        \/ Call_sheets_batch_update(i, ConcDomain)
        \/ Call_sheets_get_values(i, ConcDomain)
        \/ Call_sheets_batch_get_values(i, ConcDomain)
        \/ Call_sheets_update_values(i, ConcDomain)
        \/ Call_sheets_batch_update_values(i, ConcDomain)
        \/ Call_sheets_append_values(i, ConcDomain)
        \/ Call_sheets_clear_values(i, ConcDomain)
        \/ DispatcherReply(i, ConcDomain)
        \/ ReqReturn(i)
Spec == Init /\ [][Next]_vars

----------------------------------------------------------------------------
(* Reading the state.                                                      *)

\* The distinct ctx.dispatch calls made, and those of invocation i.
Entries == BagToSet(dispatched)
EntriesOf(i) == {e \in Entries : e.inv = i}

RECURSIVE SumCopies(_)
SumCopies(S) ==
    IF S = {} THEN 0
    ELSE LET e == CHOOSE x \in S : TRUE IN CopiesIn(e, dispatched) + SumCopies(S \ {e})

\* How many times invocation i has called ctx.dispatch.
DispatchCount(i) == SumCopies(EntriesOf(i))

\* The request invocation i handed to the dispatcher.
RequestOf(i) == (CHOOSE e \in Entries : e.inv = i).request

\* The invocations that have called the given tool.
Calls(tool) == {i \in DOMAIN pc : pc[i] # "idle" /\ call[i].tool = tool}

\* The text of the envelope invocation i returned.
TextOf(i) == result[i][1].text

\* The query parameters a path carries, read as a URL is read: what follows
\* the first "?", cut at each "&", each piece cut at its first "="; empty
\* pieces are no parameters.
AfterFirst(s, c) ==
    IF c \notin SeqRange(s) THEN <<>>
    ELSE LET i == CHOOSE k \in DOMAIN s : s[k] = c /\ \A j \in 1..(k - 1) : s[j] # c
         IN  SubSeq(s, i + 1, Len(s))
BeforeFirst(s, c) ==
    IF c \notin SeqRange(s) THEN s
    ELSE LET i == CHOOSE k \in DOMAIN s : s[k] = c /\ \A j \in 1..(k - 1) : s[j] # c
         IN  SubSeq(s, 1, i - 1)
QueryPairs(path) ==
    LET pieces == SelectSeq(split(AfterFirst(path, "?"), "&"), LAMBDA x : x # <<>>)
    IN  [k \in DOMAIN pieces |-> <<BeforeFirst(pieces[k], "="), AfterFirst(pieces[k], "=")>>]

----------------------------------------------------------------------------
(* C1: _encode_range.                                                      *)

\* RFC 3986 unreserved characters, and the characters the notation keeps.
UnreservedURL ==
    SeqRange(<<"A","B","C","D","E","F","G","H","I","J","K","L","M","N","O","P","Q","R","S","T","U","V","W","X","Y","Z","a","b","c","d","e","f","g","h","i","j","k","l","m","n","o","p","q","r","s","t","u","v","w","x","y","z","0","1","2","3","4","5","6","7","8","9","-",".","_","~">>)
NotationSafe == SeqRange(<<"!",":","$","'","(",")",",","-",".","_","~">>)
SafeOrUnreserved == NotationSafe \cup UnreservedURL
UpperHex == SeqRange(<<"0","1","2","3","4","5","6","7","8","9","A","B","C","D","E","F">>)

\* C1 as stated: a string of safe characters is returned unchanged; a string
\* holding a character c outside the safe and unreserved sets is returned
\* changed and with no raw occurrence of c.
C1_NoRawUnsafe ==
    encPc = "return" =>
        /\ (SeqRange(range_a1) \subseteq SafeOrUnreserved => encoded = range_a1)
        /\ \A c \in SeqRange(range_a1) \ SafeOrUnreserved :
               encoded # range_a1 /\ c \notin SeqRange(encoded)

\* C1 amended: the same, except that the character "%" itself stays in the
\* output, where every "%" introduces an escape of two hexadecimal digits and
\* an input "%" is written %25.
C1_EncodeSafeUnsafe ==
    encPc = "return" =>
        /\ (SeqRange(range_a1) \subseteq SafeOrUnreserved => encoded = range_a1)
        /\ \A c \in SeqRange(range_a1) \ SafeOrUnreserved :
               /\ encoded # range_a1
               /\ c # "%" => c \notin SeqRange(encoded)
               /\ c = "%" => \E j \in DOMAIN encoded : HasAt(encoded, j, <<"%","2","5">>)
        /\ \A j \in DOMAIN encoded :
               encoded[j] = "%" =>
                   /\ j + 2 <= Len(encoded)
                   /\ encoded[j + 1] \in UpperHex
                   /\ encoded[j + 2] \in UpperHex

\* A string mixing a safe character, a space and a percent sign was encoded.
C1_Witness == encPc = "return" /\ range_a1 = <<"!"," ","%">> /\ encoded = <<"!","%","2","0","%","2","5">>

----------------------------------------------------------------------------
(* C2, C3, C4: the result normaliser of _req.                              *)

\* C2 as stated: on success with a body that is present, the text is the
\* 2-space pretty-printed JSON of the body and parses back to it; {} stands
\* only for an absent body.
C2_SuccessRoundTrip ==
    \A i \in DOMAIN pc :
        (pc[i] = "done" /\ resp[i].success) =>
            LET b == resp[i].response.v
            IN  /\ b # None => (TextOf(i) = json_dumps(b, 2) /\ json_loads(TextOf(i)) = b)
                /\ json_loads(TextOf(i)) = PyDict(<<>>) => b \in {None, PyDict(<<>>)}

\* The message the dispatcher supplies, None when it supplies none.
SuppliedMessage(r) == IF r.error = None THEN None ELSE r.error.v

\* C3 as stated: on failure the text parses to {"error": m}, m the
\* dispatcher's message when it supplies one and "Request failed" when it
\* supplies none, the error object absent or present without a message.
C3_FailureMessage ==
    \A i \in DOMAIN pc :
        (pc[i] = "done" /\ ~resp[i].success) =>
            LET m == SuppliedMessage(resp[i])
                expected == IF m = None THEN PyStr(<<"R","e","q","u","e","s","t"," ","f","a","i","l","e","d">>) ELSE m
            IN  json_loads(TextOf(i)) = PyDict(<< <<<<"e","r","r","o","r">>, expected>> >>)

\* The failure shape: an object with the one key "error", its value a string.
FailureShape(text) ==
    LET o == json_loads(text)
    IN  /\ o.t = "dict"
        /\ Len(o.v) = 1
        /\ o.v[1][1] = <<"e","r","r","o","r">>
        /\ o.v[1][2].t = "str"

\* C4 as stated: the envelope has the failure shape exactly when the
\* dispatcher reported failure.
C4_ShapeDecidesOutcome ==
    \A i \in DOMAIN pc :
        pc[i] = "done" => (FailureShape(TextOf(i)) <=> ~resp[i].success)

----------------------------------------------------------------------------
(* C5: sheets_update_values.                                               *)

\* C5 as stated: the request's path is exactly the resource path, the
\* options travelling apart from it.
C5_PathIsResourceOnly ==
    \A i \in Calls("sheets_update_values") :
        LET a == call[i].args
        IN  RequestOf(i).path
                = <<"/","v","4","/","s","p","r","e","a","d","s","h","e","e","t","s","/">> \o a.spreadsheet_id \o <<"/","v","a","l","u","e","s","/">> \o _encode_range(a.range)

\* C5 amended: the path handed to the dispatcher is the resource path, with
\* the id verbatim and the range encoded, followed by "?" and the options as
\* a query string; there is no separate field for them.
C5_PathWithQuery ==
    \A i \in Calls("sheets_update_values") :
        LET a == call[i].args
            r == RequestOf(i)
        IN  /\ r.method = "PUT"
            /\ DOMAIN r = {"method", "path", "body"}
            /\ r.path = <<"/","v","4","/","s","p","r","e","a","d","s","h","e","e","t","s","/">> \o a.spreadsheet_id \o <<"/","v","a","l","u","e","s","/">>
                            \o _encode_range(a.range)
                            \o <<"?","v","a","l","u","e","I","n","p","u","t","O","p","t","i","o","n","=">> \o a.value_input_option
                            \o <<"&","i","n","c","l","u","d","e","V","a","l","u","e","s","I","n","R","e","s","p","o","n","s","e","=">>
                            \o (IF a.include_values_in_response THEN <<"t","r","u","e">> ELSE <<"f","a","l","s","e">>)
            /\ (/\ a.spreadsheet_id = <<"a","b","c","1","2","3">>
                /\ a.range = <<"S","h","e","e","t"," ","1","!","A","1",":","B","2">>
                /\ a.value_input_option = <<"U","S","E","R","_","E","N","T","E","R","E","D">>
                /\ ~a.include_values_in_response)
               => r.path = <<"/","v","4","/","s","p","r","e","a","d","s","h","e","e","t","s","/","a","b","c","1","2","3","/","v","a","l","u","e","s","/","S","h","e","e","t","%","2","0","1","!","A","1",":","B","2","?","v","a","l","u","e","I","n","p","u","t","O","p","t","i","o","n","=","U","S","E","R","_","E","N","T","E","R","E","D","&","i","n","c","l","u","d","e","V","a","l","u","e","s","I","n","R","e","s","p","o","n","s","e","=","f","a","l","s","e">>

\* The update of "Sheet 1!A1:B2" in abc123 was handed to the dispatcher.
C5_Witness ==
    \E i \in Calls("sheets_update_values") :
        /\ call[i].args.spreadsheet_id = <<"a","b","c","1","2","3">>
        /\ call[i].args.range = <<"S","h","e","e","t"," ","1","!","A","1",":","B","2">>
        /\ call[i].args.value_input_option = <<"U","S","E","R","_","E","N","T","E","R","E","D">>
        /\ ~call[i].args.include_values_in_response
        /\ DispatchCount(i) = 1

----------------------------------------------------------------------------
(* C6: sheets_batch_get_values.                                            *)

\* C6 as stated: the query parameters hold one `ranges` pair per
\* comma-separated segment, in order, each value the trimmed segment, and
\* the three option pairs are what they are whatever the segments contain.
C6_RangesPairs ==
    \A i \in Calls("sheets_batch_get_values") :
        LET a == call[i].args
            segs == split(a.ranges, ",")
            q == QueryPairs(RequestOf(i).path)
            rangesPairs == SelectSeq(q, LAMBDA kv : kv[1] = <<"r","a","n","g","e","s">>)
            otherPairs == SelectSeq(q, LAMBDA kv : kv[1] # <<"r","a","n","g","e","s">>)
        IN  /\ rangesPairs = [k \in DOMAIN segs |-> <<<<"r","a","n","g","e","s">>, strip(segs[k])>>]
            /\ otherPairs = << <<<<"m","a","j","o","r","D","i","m","e","n","s","i","o","n">>, a.major_dimension>>,
                               <<<<"v","a","l","u","e","R","e","n","d","e","r","O","p","t","i","o","n">>, a.value_render_option>>,
                               <<<<"d","a","t","e","T","i","m","e","R","e","n","d","e","r","O","p","t","i","o","n">>, a.date_time_render_option>> >>

----------------------------------------------------------------------------
(* C7, C8: invocations and the dispatcher.                                 *)

\* C7: an invocation has called the dispatcher exactly once from the moment
\* it suspends, whatever the reply, never again after a failure, and has
\* returned exactly one envelope once done, the failure envelope on failure.
C7_OneDispatchOneEnvelope ==
    \A i \in DOMAIN pc :
        /\ DispatchCount(i) = (IF pc[i] = "idle" THEN 0 ELSE 1)
        /\ Len(result[i]) = (IF pc[i] = "done" THEN 1 ELSE 0)
        /\ (pc[i] = "done" /\ ~resp[i].success) =>
               /\ json_loads(TextOf(i)).t = "dict"
               /\ json_loads(TextOf(i)).v[1][1] = <<"e","r","r","o","r">>

\* An invocation is done after a failure while another is still suspended.
C7_Witness ==
    \E i, j \in DOMAIN pc :
        /\ pc[i] = "done" /\ ~resp[i].success /\ Len(result[i]) = 1
        /\ pc[j] = "awaiting"

\* The request of every call is the one its own arguments build, and the
\* envelope of every finished invocation is the one its own reply makes.
C8_OwnInputsOnly ==
    /\ \A e \in Entries : e.request = BuiltRequest(call[e.inv])
    /\ \A i \in DOMAIN pc : pc[i] = "done" => result[i] = ReqResult(resp[i])

\* A step leaves alone everything of an invocation that does not move.
C8_Frame ==
    \A i \in DOMAIN pc :
        pc'[i] = pc[i] =>
            /\ call'[i] = call[i]
            /\ resp'[i] = resp[i]
            /\ result'[i] = result[i]
            /\ EntriesOf(i)' = EntriesOf(i)

\* C8: under every interleaving, each request is a function of its own
\* invocation's arguments, each envelope of its own dispatcher outcome, and
\* no step of one invocation touches the state of another.
C8_Independent == []C8_OwnInputsOnly /\ [][C8_Frame]_vars

\* Two invocations of different tools, one answered with success and done,
\* the other answered with failure and about to resume.
C8_Witness ==
    \E i, j \in DOMAIN pc :
        /\ pc[i] = "done" /\ resp[i].success
        /\ pc[j] = "replied" /\ ~resp[j].success
        /\ call[i].tool # call[j].tool

----------------------------------------------------------------------------
(* C9: sheets_create.                                                      *)

CountOf(s, c) == Cardinality({k \in DOMAIN s : s[k] = c})

\* C9: the body is {properties: {title}} and, for non-empty sheet_titles, a
\* `sheets` list of one {properties: {title: t}} per comma-separated title,
\* in order and trimmed; no `sheets` key for empty sheet_titles.
C9_CreateBody ==
    \A i \in Calls("sheets_create") :
        LET a == call[i].args
            r == RequestOf(i)
            segs == split(a.sheet_titles, ",")
        IN  /\ r.body.t = "dict"
            /\ r.body.v[1] = <<<<"p","r","o","p","e","r","t","i","e","s">>, PyDict(<< <<<<"t","i","t","l","e">>, PyStr(a.title)>> >>)>>
            /\ a.sheet_titles = <<>> => Len(r.body.v) = 1
            /\ a.sheet_titles # <<>> =>
                   /\ Len(r.body.v) = 2
                   /\ r.body.v[2][1] = <<"s","h","e","e","t","s">>
                   /\ LET sheetsList == r.body.v[2][2].v
                      IN  /\ Len(sheetsList) = CountOf(a.sheet_titles, ",") + 1
                          /\ \A k \in DOMAIN sheetsList :
                                 LET t == sheetsList[k].v[1][2].v[1][2].v
                                 IN  /\ sheetsList[k] = SheetProperties(strip(segs[k]))
                                     /\ "," \notin SeqRange(t)
                                     /\ t # <<>> => (t[1] # " " /\ t[Len(t)] # " ")
            /\ (a.title = <<"B","u","d","g","e","t">> /\ a.sheet_titles = <<"J","a","n",","," ","F","e","b">>) =>
                   r.body = json_loads(<<"{","\"","p","r","o","p","e","r","t","i","e","s","\"",":"," ","{","\"","t","i","t","l","e","\"",":"," ","\"","B","u","d","g","e","t","\"","}",","," ","\"","s","h","e","e","t","s","\"",":"," ","[","{","\"","p","r","o","p","e","r","t","i","e","s","\"",":"," ","{","\"","t","i","t","l","e","\"",":"," ","\"","J","a","n","\"","}","}",","," ","{","\"","p","r","o","p","e","r","t","i","e","s","\"",":"," ","{","\"","t","i","t","l","e","\"",":"," ","\"","F","e","b","\"","}","}","]","}">>)

\* "Budget" with sheets "Jan, Feb" was handed to the dispatcher.
C9_Witness ==
    \E i \in Calls("sheets_create") :
        /\ call[i].args.title = <<"B","u","d","g","e","t">>
        /\ call[i].args.sheet_titles = <<"J","a","n",","," ","F","e","b">>
        /\ DispatchCount(i) = 1

----------------------------------------------------------------------------
(* C10: sheets_batch_update_values.                                        *)

\* The body wraps the caller's data as it is, and the path names no range.
C10_BodyWrapsData ==
    \A i \in Calls("sheets_batch_update_values") :
        LET a == call[i].args
            r == RequestOf(i)
        IN  /\ r.method = "POST"
            /\ r.path = <<"/","v","4","/","s","p","r","e","a","d","s","h","e","e","t","s","/">> \o a.spreadsheet_id \o <<"/","v","a","l","u","e","s",":","b","a","t","c","h","U","p","d","a","t","e">>
            /\ r.body = PyDict(<< <<<<"v","a","l","u","e","I","n","p","u","t","O","p","t","i","o","n">>, PyStr(a.value_input_option)>>,
                                  <<<<"i","n","c","l","u","d","e","V","a","l","u","e","s","I","n","R","e","s","p","o","n","s","e">>, PyBool(a.include_values_in_response)>>,
                                  <<<<"d","a","t","a">>, a.data>> >>)
            /\ LET sent == r.body.v[3][2].v
               IN  /\ Len(sent) = Len(a.data.v)
                   /\ \A k \in DOMAIN sent :
                          /\ sent[k].v[1] = a.data.v[k].v[1]
                          /\ sent[k].v[2] = a.data.v[k].v[2]

\* The caller's structure is not changed by any step after the call.
C10_DataKept ==
    \A i \in DOMAIN pc : pc[i] # "idle" => call'[i] = call[i]

\* C10: the dispatched body is {valueInputOption, includeValuesInResponse,
\* data} with `data` the caller's list item for item, every range and values
\* grid as supplied; the caller's structure stays as it was; the path carries
\* no range.
C10_WrapNotTransform == []C10_BodyWrapsData /\ [][C10_DataKept]_vars

\* A batch whose second range would change under encoding or trimming was
\* handed to the dispatcher.
C10_Witness ==
    \E i \in Calls("sheets_batch_update_values") :
        /\ Len(call[i].args.data.v) = 2
        /\ call[i].args.data.v[2].v[1][2] = PyStr(<<" ","'","Q","#","1","'","!","A","%"," ">>)
        /\ DispatchCount(i) = 1

=============================================================================
